---- MODULE Spec2Model ----
(***************************************************************************)
(* Dungeon generation (randomized Prim maze, feature placement) and the    *)
(* breadth-first path finder of the dungeon game.                          *)
(*                                                                         *)
(* A Point is a record [x, y]; a pair such as Dungeon.Entrance is a tuple  *)
(* <<x, y>>.  Cells[y][x] is the Type of the cell, rows and columns are    *)
(* numbered from 0 as in the source.  Go slices are sequences, so slice    *)
(* index k of the source is index k + 1 here.                              *)
(***************************************************************************)
EXTENDS Integers, Sequences, FiniteSets, TLC

VARIABLES
    Width, Height, Level,   \* Dungeon.Width, Dungeon.Height, Dungeon.Level
    Cells,                  \* Dungeon.Cells: Cells[y][x] is the cell's Type
    Entrance, Exit,         \* Dungeon.Entrance, Dungeon.Exit
    walls,                  \* the frontier list of generateMaze
    i,                      \* loop counter of the monster and treasure loops
    pc,                     \* position in NewDungeon / FindPath's caller
    start, goal,            \* arguments of a FindPath call
    path,                   \* result of the FindPath call
    Interactions,           \* InteractionHandler.Interactions
    Messages,               \* InteractionHandler.Messages
    now,                    \* the clock read by time.Now(), in tenths of a second
    player,                 \* the Player
    call,                   \* the call made last on the handler or the player
    returned,               \* what that call returned
    calls,                  \* number of calls made so far
    carves,                 \* number of carvePath calls generateMaze has made
    cell,                   \* the Cell a placement of NewDungeon or startGame has written
    Details                 \* Dungeon.Cells: the fields of the cells other than the Type

\* the handler, the clock and the player
handlerVars == <<Interactions, Messages, now, player, call, returned, calls>>

\* the count of carves and the fields of the cells other than the Type
cellVars == <<carves, cell, Details>>

vars == <<Width, Height, Level, Cells, Entrance, Exit, walls, i, pc, start, goal, path,
          Interactions, Messages, now, player, call, returned, calls,
          carves, cell, Details>>

----------------------------------------------------------------------------
(* Bounds of the model. *)

\* Widths and heights of the generated dungeons range over 3..MaxSide.
MaxSide == 6

\* The monster and treasure loops follow the draws of placeRandomFeature that
\* land on one of the first PlaceFan Empty interior cells in row-major order.
PlaceFan == 2

\* Grids handed to FindPath are 2..MaxPathWidth wide and 2 or 3 high.
MaxPathWidth == 3
PathHeights == {2, 3}

\* Widths of the one-row dungeons (height 3) in which all features fit.
LongWidths == {24, 25}

----------------------------------------------------------------------------
(* Cell types and program constants. *)

Empty == "Empty"
Wall == "Wall"
Monster == "Monster"
Treasure == "Treasure"
EntranceT == "Entrance"
ExitT == "Exit"

CellType == {Empty, Wall, Monster, Treasure, EntranceT, ExitT}

NumMonsters == 10
NumTreasures == 10

Point(px, py) == [x |-> px, y |-> py]

\* FindPath's nil result.
Absent == <<>>

----------------------------------------------------------------------------
(* generateMaze and its helpers. *)

\* dirs of generateMaze: left, right, up, down in steps of 2
MazeDirs == <<Point(-2, 0), Point(2, 0), Point(0, -2), Point(0, 2)>>

inBounds(px, py, width, height) ==
    px >= 0 /\ px < width /\ py >= 0 /\ py < height

\* the grid after the loops at the head of NewDungeon and fillWithWalls
fillWithWalls(width, height) ==
    [py \in 0..(height - 1) |-> [px \in 0..(width - 1) |-> Wall]]

setCellEmpty(cells, p) ==
    [cells EXCEPT ![p.y][p.x] = Empty]

\* isEmpty without its test: no cell counts as carved
isEmptyNever(cells, p) == FALSE

isEmpty(cells, p) == cells[p.y][p.x] # Wall

removeAt(points, k) ==
    SubSeq(points, 1, k - 1) \o SubSeq(points, k + 1, Len(points))

\* the points p + dirs[k], in the order of dirs
StepsFrom(p, dirs) ==
    [k \in 1..Len(dirs) |-> Point(p.x + dirs[k].x, p.y + dirs[k].y)]

getInitialWalls(startP, dirs, width, height) ==
    LET Keep(q) == inBounds(q.x, q.y, width, height)
    IN  SelectSeq(StepsFrom(startP, dirs), Keep)

\* getEmptyNeighbors without the test for Empty
getEmptyNeighborsAnyType(cells, wall, dirs, width, height) ==
    LET Keep(q) == inBounds(q.x, q.y, width, height)
    IN  SelectSeq(StepsFrom(wall, dirs), Keep)

getEmptyNeighbors(cells, wall, dirs, width, height) ==
    LET Keep(q) == inBounds(q.x, q.y, width, height) /\ cells[q.y][q.x] = Empty
    IN  SelectSeq(StepsFrom(wall, dirs), Keep)

\* the points addAdjacentWalls appends to the frontier
addAdjacentWalls(cells, wall, dirs, width, height) ==
    LET Keep(q) == inBounds(q.x, q.y, width, height) /\ cells[q.y][q.x] = Wall
    IN  SelectSeq(StepsFrom(wall, dirs), Keep)

\* carvePath that leaves the cell between wall and neighbor as it is
carvePathWallOnly(cells, wall, neighbor) == setCellEmpty(cells, wall)

\* carvePath that empties only the cell between wall and neighbor
carvePathMidOnly(cells, wall, neighbor) ==
    setCellEmpty(cells, Point((wall.x + neighbor.x) \div 2, (wall.y + neighbor.y) \div 2))

carvePath(cells, wall, neighbor) ==
    LET midX == (wall.x + neighbor.x) \div 2
        midY == (wall.y + neighbor.y) \div 2
    IN  setCellEmpty(setCellEmpty(cells, wall), Point(midX, midY))

MazeStart == Point(1, 1)

\* One iteration of the main loop of generateMaze: a random frontier entry is
\* removed; if it is still Wall and has an Empty step-2 neighbour, it is
\* carved towards a random one of them and its Wall step-2 neighbours are
\* appended.
MazeStep ==
    /\ pc = "generateMaze"
    /\ Len(walls) > 0
    /\ \E idx \in 1..Len(walls) :
         LET wall == walls[idx]
             rest == removeAt(walls, idx)
             neighbors == getEmptyNeighbors(Cells, wall, MazeDirs, Width, Height)
         IN  IF isEmpty(Cells, wall) \/ Len(neighbors) = 0
             THEN /\ walls' = rest
                  /\ Cells' = Cells
                  /\ carves' = carves
             ELSE \E n \in 1..Len(neighbors) :
                    LET carved == carvePath(Cells, wall, neighbors[n])
                    IN  /\ Cells' = carved
                        /\ walls' = rest \o addAdjacentWalls(carved, wall, MazeDirs, Width, Height)
                        /\ carves' = carves + 1
    /\ UNCHANGED <<Width, Height, Level, Entrance, Exit, i, pc, start, goal, path>>
    /\ UNCHANGED handlerVars
    /\ UNCHANGED <<cell, Details>>

----------------------------------------------------------------------------
(* Feature placement of NewDungeon. *)

\* dirs of findDeadEnds: up, right, down, left
DeadEndDirs == <<Point(0, -1), Point(1, 0), Point(0, 1), Point(-1, 0)>>

Min(a, b) == IF a < b THEN a ELSE b

\* a scan that stops one column short of the last interior column
InteriorScanShort(width, height) ==
    [k \in 1..((width - 3) * (height - 2)) |->
        <<1 + ((k - 1) % (width - 3)), 1 + ((k - 1) \div (width - 3))>>]

\* the interior coordinates <<x, y>>, row by row (y = 1..height-2, and within
\* a row x = 1..width-2): the scan order of findDeadEnds and the range of the
\* draws of placeRandomFeature
InteriorScan(width, height) ==
    [k \in 1..((width - 2) * (height - 2)) |->
        <<1 + ((k - 1) % (width - 2)), 1 + ((k - 1) \div (width - 2))>>]

\* number of Empty 4-neighbours of (px, py), as counted by findDeadEnds
emptyNeighbors(cells, px, py, width, height) ==
    Cardinality({k \in 1..Len(DeadEndDirs) :
        LET nx == px + DeadEndDirs[k].x
            ny == py + DeadEndDirs[k].y
        IN  nx >= 0 /\ nx < width /\ ny >= 0 /\ ny < height /\ cells[ny][nx] = Empty})

findDeadEnds(cells, width, height) ==
    LET IsDeadEnd(c) == /\ cells[c[2]][c[1]] = Empty
                        /\ emptyNeighbors(cells, c[1], c[2], width, height) = 1
    IN  SelectSeq(InteriorScan(width, height), IsDeadEnd)

\* squared Euclidean distance of two <<x, y>> pairs
SqDist(a, b) == (a[1] - b[1]) * (a[1] - b[1]) + (a[2] - b[2]) * (a[2] - b[2])

\* the inner loop with the comparison turned round
RECURSIVE BubblePassAscending(_, _, _, _)
BubblePassAscending(deadEnds, point, j, last) ==
    IF j >= last THEN deadEnds
    ELSE LET dist1 == SqDist(deadEnds[j + 1], point)
             dist2 == SqDist(deadEnds[j + 2], point)
             swapped == [deadEnds EXCEPT ![j + 1] = deadEnds[j + 2],
                                         ![j + 2] = deadEnds[j + 1]]
         IN  CHOOSE result \in
                 {BubblePassAscending(next, point, j + 1, last) :
                     next \in {IF dist1 > dist2 THEN swapped ELSE deadEnds}} : TRUE

\* the inner loop of the bubble sort: j runs from the given j to last - 1
\* (slice indices j and j + 1 are sequence indices j + 1 and j + 2).  The
\* slice after an iteration is bound as a value (next) before the loop goes on.
RECURSIVE BubblePass(_, _, _, _)
BubblePass(deadEnds, point, j, last) ==
    IF j >= last THEN deadEnds
    ELSE LET dist1 == SqDist(deadEnds[j + 1], point)
             dist2 == SqDist(deadEnds[j + 2], point)
             swapped == [deadEnds EXCEPT ![j + 1] = deadEnds[j + 2],
                                         ![j + 2] = deadEnds[j + 1]]
         IN  CHOOSE result \in
                 {BubblePass(next, point, j + 1, last) :
                     next \in {IF dist1 < dist2 THEN swapped ELSE deadEnds}} : TRUE

\* the outer loop of the bubble sort, from pass number k on
RECURSIVE BubbleFrom(_, _, _)
BubbleFrom(deadEnds, point, k) ==
    IF k >= Len(deadEnds) - 1 THEN deadEnds
    ELSE CHOOSE result \in
             {BubbleFrom(next, point, k + 1) :
                 next \in {BubblePass(deadEnds, point, 0, Len(deadEnds) - k - 1)}} : TRUE

sortDeadEndsByDistance(deadEnds, point) == BubbleFrom(deadEnds, point, 0)

\* placeRandomFeature that returns its first draw, whatever the cell's type
placeRandomFeatureAnyCell(cells, requiredType, width, height) ==
    InteriorScan(width, height)

\* the cells placeRandomFeature can return: its draws range over the interior
\* and it returns the first draw whose cell has the required type
placeRandomFeature(cells, requiredType, width, height) ==
    LET Matches(c) == cells[c[2]][c[1]] = requiredType
    IN  SelectSeq(InteriorScan(width, height), Matches)

setCell(cells, c, type) == [cells EXCEPT ![c[2]][c[1]] = type]

\* line 104: the loop of generateMaze has ended and the Entrance is placed
PlaceEntrance ==
    /\ pc = "generateMaze"
    /\ Len(walls) = 0
    /\ LET found == placeRandomFeature(Cells, Empty, Width, Height)
       IN  \E k \in 1..Len(found) :
             /\ Cells' = setCell(Cells, found[k], EntranceT)
             /\ Entrance' = found[k]
    /\ pc' = "placeExit"
    /\ UNCHANGED <<Width, Height, Level, Exit, walls, i, start, goal, path>>
    /\ UNCHANGED handlerVars
    /\ UNCHANGED cellVars

\* the dead ends of the current grid, farthest from the Entrance first
SortedDeadEnds == sortDeadEndsByDistance(findDeadEnds(Cells, Width, Height), Entrance)

\* lines 115-118: the Exit goes to the first of the sorted dead ends
PlaceExitDeadEnd ==
    /\ pc = "placeExit"
    /\ \E deadEnds \in {SortedDeadEnds} :
         /\ Len(deadEnds) > 0
         /\ Cells' = setCell(Cells, deadEnds[1], ExitT)
         /\ Exit' = deadEnds[1]
    /\ pc' = "placeMonsters"
    /\ i' = 0
    /\ UNCHANGED <<Width, Height, Level, Entrance, walls, start, goal, path>>
    /\ UNCHANGED handlerVars
    /\ UNCHANGED cellVars

\* the test of line 128 on a drawn Exit position
FarEnough(entrance, exit, width, height) ==
    LET minDistance == (width + height) \div 3
    IN  SqDist(entrance, exit) >= minDistance * minDistance

\* lines 120-135: without dead ends, an Empty cell is drawn until one is far
\* enough from the Entrance; a draw that is too close is reverted to Empty,
\* which leaves the state as it was.
PlaceExitFallback ==
    /\ pc = "placeExit"
    /\ \E deadEnds \in {SortedDeadEnds} : Len(deadEnds) = 0
    /\ LET found == placeRandomFeature(Cells, Empty, Width, Height)
       IN  \E k \in 1..Len(found) :
             /\ FarEnough(Entrance, found[k], Width, Height)
             /\ Cells' = setCell(Cells, found[k], ExitT)
             /\ Exit' = found[k]
    /\ pc' = "placeMonsters"
    /\ i' = 0
    /\ UNCHANGED <<Width, Height, Level, Entrance, walls, start, goal, path>>
    /\ UNCHANGED handlerVars
    /\ UNCHANGED cellVars

\* the draws of the monster and treasure loops that the model follows: the
\* first PlaceFan cells placeRandomFeature can return
FanDraws(cells, width, height) ==
    LET found == placeRandomFeature(cells, Empty, width, height)
    IN  SubSeq(found, 1, Min(PlaceFan, Len(found)))

\* lines 139-162: one iteration of the monster loop
PlaceMonster ==
    /\ pc = "placeMonsters"
    /\ i < NumMonsters
    /\ LET found == FanDraws(Cells, Width, Height)
       IN  \E k \in 1..Len(found) :
             Cells' = setCell(Cells, found[k], Monster)
    /\ IF i + 1 < NumMonsters
       THEN i' = i + 1 /\ pc' = pc
       ELSE i' = 0 /\ pc' = "placeTreasures"
    /\ UNCHANGED <<Width, Height, Level, Entrance, Exit, walls, start, goal, path>>
    /\ UNCHANGED handlerVars
    /\ UNCHANGED cellVars

\* lines 166-178: one iteration of the treasure loop; after the last one
\* NewDungeon returns
PlaceTreasure ==
    /\ pc = "placeTreasures"
    /\ i < NumTreasures
    /\ LET found == FanDraws(Cells, Width, Height)
       IN  \E k \in 1..Len(found) :
             Cells' = setCell(Cells, found[k], Treasure)
    /\ IF i + 1 < NumTreasures
       THEN i' = i + 1 /\ pc' = pc
       ELSE i' = 0 /\ pc' = "done"
    /\ UNCHANGED <<Width, Height, Level, Entrance, Exit, walls, start, goal, path>>
    /\ UNCHANGED handlerVars
    /\ UNCHANGED cellVars

----------------------------------------------------------------------------
(* FindPath. *)

\* dirs of FindPath without the step to the left
PathDirsNoLeft == <<Point(0, -1), Point(1, 0), Point(0, 1)>>

\* dirs of FindPath: up, right, down, left
PathDirs == <<Point(0, -1), Point(1, 0), Point(0, 1), Point(-1, 0)>>

\* the neighbours of pos without the test for Wall
PathNeighborsThroughWalls(cells, width, height, visited, pos) ==
    LET Keep(q) == /\ q.x >= 0 /\ q.y >= 0 /\ q.x < width /\ q.y < height
                   /\ q \notin visited
    IN  SelectSeq(StepsFrom(pos, PathDirs), Keep)

\* the neighbours of pos with a bounds test that lets through the points one
\* step outside the grid
PathNeighborsWideBounds(cells, width, height, visited, pos) ==
    LET Keep(q) == /\ q.x >= -1 /\ q.y >= -1 /\ q.x <= width /\ q.y <= height
                   /\ q \notin visited
                   /\ (q.x >= 0 /\ q.y >= 0 /\ q.x < width /\ q.y < height)
                         => cells[q.y][q.x] # Wall
    IN  SelectSeq(StepsFrom(pos, PathDirs), Keep)

\* lines 467-471: the neighbours of pos that one iteration enqueues, in the
\* order of dirs: in bounds, not visited, not Wall
PathNeighbors(cells, width, height, visited, pos) ==
    LET Keep(q) == /\ q.x >= 0 /\ q.y >= 0 /\ q.x < width /\ q.y < height
                   /\ q \notin visited
                   /\ cells[q.y][q.x] # Wall
    IN  SelectSeq(StepsFrom(pos, PathDirs), Keep)

\* a queue served from its end
DequeueLast(queue) ==
    [current |-> queue[Len(queue)], rest |-> SubSeq(queue, 1, Len(queue) - 1)]

\* lines 458-459: the node taken from the queue, and the queue without it
Dequeue(queue) == [current |-> queue[1], rest |-> SubSeq(queue, 2, Len(queue))]

\* lines 457-481: the search loop.  nodes holds the Nodes allocated so far (a
\* *Node is an index into it, 0 is nil), queue the indices still to visit,
\* visited the points whose visited flag is set.  The result is the record of
\* the nodes and goalNode.
RECURSIVE SearchLoop(_, _, _, _, _, _, _)
SearchLoop(cells, width, height, goalP, nodes, queue, visited) ==
    IF Len(queue) = 0 THEN [nodes |-> nodes, goalNode |-> 0]
    ELSE LET current == Dequeue(queue).current
             pos == nodes[current].Pos
             fresh == PathNeighbors(cells, width, height, visited, pos)
             added == [k \in 1..Len(fresh) |->
                          [Pos |-> fresh[k], Prev |-> current,
                           Steps |-> nodes[current].Steps + 1]]
         IN  IF pos.x = goalP.x /\ pos.y = goalP.y
             THEN [nodes |-> nodes, goalNode |-> current]
             ELSE SearchLoop(cells, width, height, goalP,
                             nodes \o added,
                             Dequeue(queue).rest \o [k \in 1..Len(fresh) |-> Len(nodes) + k],
                             visited \cup {fresh[k] : k \in 1..Len(fresh)})

\* lines 488-491: the positions from the root to node, following Prev
RECURSIVE Reconstruct(_, _)
Reconstruct(nodes, node) ==
    IF node = 0 THEN <<>>
    ELSE Reconstruct(nodes, nodes[node].Prev) \o <<nodes[node].Pos>>

FindPath(cells, width, height, startP, goalP) ==
    LET root == [Pos |-> startP, Prev |-> 0, Steps |-> 0]
        found == SearchLoop(cells, width, height, goalP, <<root>>, <<1>>, {})
    IN  IF found.goalNode = 0 THEN Absent
        ELSE Reconstruct(found.nodes, found.goalNode)

\* the points of a width x height grid
GridPoints(width, height) ==
    {Point(px, py) : px \in 0..(width - 1), py \in 0..(height - 1)}

\* A caller (Game.Update on hover, Player.MoveTo on click) asks for the path
\* between two points of the grid.
CallFindPath ==
    /\ pc = "findPath"
    /\ \E s \in GridPoints(Width, Height), g \in GridPoints(Width, Height) :
         /\ start' = s
         /\ goal' = g
         /\ path' = FindPath(Cells, Width, Height, s, g)
    /\ pc' = "returned"
    /\ UNCHANGED <<Width, Height, Level, Cells, Entrance, Exit, walls, i>>
    /\ UNCHANGED handlerVars
    /\ UNCHANGED cellVars

----------------------------------------------------------------------------
(* The Player and the InteractionHandler. *)

\* Go's integer division truncates towards zero (b > 0)
GoDiv(a, b) == IF a >= 0 THEN a \div b ELSE -((-a) \div b)

TreasureGold == "gold"
TreasureGems == "gems"
TreasureArtifact == "artifact"
TreasurePotion == "potion"

NewPlayer(startPos) ==
    [X |-> startPos[1], Y |-> startPos[2],
     Health |-> 100, MaxHealth |-> 100, Score |-> 0,
     FOVEnabled |-> TRUE, FOVRadius |-> 6,
     Defense |-> 10, Luck |-> 5, Level |-> 1, Experience |-> 0,
     moveCooldown |-> 0, Path |-> <<>>]

NewMonsterInteraction(level) == [kind |-> "Monster", Level |-> level]
NewTreasureInteraction(value, ttype) == [kind |-> "Treasure", Value |-> value, Type |-> ttype]
NewExitInteraction(nextLevel) == [kind |-> "Exit", NextLevel |-> nextLevel]

\* a monster whose damage divides before it multiplies
MonsterInteractDivideFirst(m, p) ==
    LET damage == (5 + m.Level * 2) * GoDiv(100 - p.Defense, 100)
        score == 10 + m.Level * 5
    IN  [Message |-> <<"Defeated a level %d monster! Took %d damage.", m.Level, damage>>,
         HealthChange |-> -damage,
         ScoreChange |-> score,
         RemoveEntity |-> TRUE,
         EntityRemoved |-> Monster]

\* a treasure that heals whatever its kind
TreasureInteractAlwaysHeals(t, p) ==
    LET score == GoDiv(t.Value * (100 + p.Luck), 100)
    IN  [Message |-> <<"Found %s worth %d points!", t.Type, score>>,
         HealthChange |-> 10,
         ScoreChange |-> score,
         RemoveEntity |-> TRUE,
         EntityRemoved |-> Treasure]

\* A message text is the format string of the Sprintf call followed by its
\* arguments; a literal text is a format string without arguments.
MonsterInteract(m, p) ==
    LET damage == GoDiv((5 + m.Level * 2) * (100 - p.Defense), 100)
        score == 10 + m.Level * 5
    IN  [Message |-> <<"Defeated a level %d monster! Took %d damage.", m.Level, damage>>,
         HealthChange |-> -damage,
         ScoreChange |-> score,
         RemoveEntity |-> TRUE,
         EntityRemoved |-> Monster]

TreasureInteract(t, p) ==
    LET score == GoDiv(t.Value * (100 + p.Luck), 100)
        health == IF t.Type = TreasurePotion THEN 10 ELSE 0
    IN  [Message |-> <<"Found %s worth %d points!", t.Type, score>>,
         HealthChange |-> health,
         ScoreChange |-> score,
         RemoveEntity |-> TRUE,
         EntityRemoved |-> Treasure]

\* an Exit behaviour that awards no score
ExitInteractNoScore(e, p) ==
    [Message |-> <<"Descending to dungeon level %d!", e.NextLevel>>,
     HealthChange |-> 0,
     ScoreChange |-> 0,
     RemoveEntity |-> FALSE,
     EntityRemoved |-> Empty]

ExitInteract(e, p) ==
    [Message |-> <<"Descending to dungeon level %d!", e.NextLevel>>,
     HealthChange |-> 0,
     ScoreChange |-> 20,
     RemoveEntity |-> FALSE,
     EntityRemoved |-> Empty]

\* the dynamic dispatch of Interactable.Interact
Interact(interaction, p) ==
    CASE interaction.kind = "Monster" -> MonsterInteract(interaction, p)
      [] interaction.kind = "Treasure" -> TreasureInteract(interaction, p)
      [] interaction.kind = "Exit" -> ExitInteract(interaction, p)

\* MessageLife of NewInteractionHandler: 1.5 seconds, in tenths of a second
MessageLife == 15

\* NewInteractionHandler: no behaviour registered, no message
NoInteractions == [c \in {} |-> NewExitInteraction(0)]

\* a Register that forgets the other categories
RegisterOnly(interactions, cellType, interaction) ==
    [c \in {cellType} |-> interaction]

Register(interactions, cellType, interaction) ==
    [c \in DOMAIN interactions \cup {cellType} |->
        IF c = cellType THEN interaction ELSE interactions[c]]

\* an AddMessage whose cap keeps the first five messages
AddMessageKeepsOldest(messages, msg, t) ==
    LET timedMsg == [Text |-> msg, CreatedAt |-> t,
                     TotalLifetime |-> 15, RemainingTime |-> 15]
        appended == Append(messages, timedMsg)
    IN  IF Len(appended) > 5 THEN SubSeq(appended, 1, 5) ELSE appended

\* h.Messages after AddMessage(msg) at time t
AddMessage(messages, msg, t) ==
    LET timedMsg == [Text |-> msg, CreatedAt |-> t,
                     TotalLifetime |-> MessageLife, RemainingTime |-> MessageLife]
        appended == Append(messages, timedMsg)
    IN  IF Len(appended) > 5
        THEN SubSeq(appended, Len(appended) - 5 + 1, Len(appended))
        ELSE appended

\* an UpdateMessages that keeps a message whose remaining lifetime is 0
UpdateMessagesKeepsZero(messages, t) ==
    LET remaining(msg) == 15 - (t - msg.CreatedAt)
        updated == [k \in 1..Len(messages) |->
                       [messages[k] EXCEPT !.RemainingTime = remaining(messages[k])]]
        Active(msg) == remaining(msg) >= 0
    IN  SelectSeq(updated, Active)

\* h.Messages after UpdateMessages at time t
UpdateMessages(messages, t) ==
    LET remaining(msg) == MessageLife - (t - msg.CreatedAt)
        updated == [k \in 1..Len(messages) |->
                       [messages[k] EXCEPT !.RemainingTime = remaining(messages[k])]]
        Active(msg) == remaining(msg) > 0
    IN  SelectSeq(updated, Active)

\* the texts GetMessages returns, from the Messages UpdateMessages has left
GetMessages(messages) == [k \in 1..Len(messages) |-> messages[k].Text]

\* a no-op result that asks for the entity to be removed
NothingHappensRemoves ==
    [Message |-> <<"Nothing happens.">>,
     HealthChange |-> 0,
     ScoreChange |-> 0,
     RemoveEntity |-> TRUE,
     EntityRemoved |-> "Empty"]

\* the result for a category without a behaviour; the fields not named in the
\* source have Go's zero values
NothingHappens ==
    [Message |-> <<"Nothing happens.">>,
     HealthChange |-> 0,
     ScoreChange |-> 0,
     RemoveEntity |-> FALSE,
     EntityRemoved |-> Empty]

\* a Handle without the cap of Health at MaxHealth
HandleNoCap(interactions, messages, p, cellType, t) ==
    IF cellType \in DOMAIN interactions
    THEN LET res == Interact(interactions[cellType], p)
         IN  [result |-> res,
              Messages |-> AddMessage(messages, res.Message, t),
              player |-> [p EXCEPT !.Health = p.Health + res.HealthChange,
                                   !.Score = p.Score + res.ScoreChange]]
    ELSE [result |-> NothingHappens, Messages |-> messages, player |-> p]

\* a Handle that logs the message of the no-op result too
HandleLogsNoOp(interactions, messages, p, cellType, t) ==
    IF cellType \in DOMAIN interactions
    THEN LET res == Interact(interactions[cellType], p)
             health == p.Health + res.HealthChange
         IN  [result |-> res,
              Messages |-> AddMessage(messages, res.Message, t),
              player |-> [p EXCEPT !.Health = IF health > p.MaxHealth THEN p.MaxHealth ELSE health,
                                   !.Score = p.Score + res.ScoreChange]]
    ELSE [result |-> NothingHappens,
          Messages |-> AddMessage(messages, NothingHappens.Message, t),
          player |-> p]

\* Handle(cellType, p) at time t: the result, and the Messages and the player
\* it leaves
Handle(interactions, messages, p, cellType, t) ==
    IF cellType \in DOMAIN interactions
    THEN LET res == Interact(interactions[cellType], p)
             health == p.Health + res.HealthChange
         IN  [result |-> res,
              Messages |-> AddMessage(messages, res.Message, t),
              player |-> [p EXCEPT !.Health = IF health > p.MaxHealth THEN p.MaxHealth ELSE health,
                                   !.Score = p.Score + res.ScoreChange]]
    ELSE [result |-> NothingHappens, Messages |-> messages, player |-> p]

\* the value of returned after a call that returns nothing
NoResult == [none |-> TRUE]

\* a Cell as make([]Cell, width) leaves it
NoCell == [Type |-> Empty, InteractionLevel |-> 0, TreasureType |-> "", MonsterTier |-> "TierEasy"]

\* no fields other than the Type are followed
NoDetails == <<>>

CellsIdle ==
    /\ carves = 0
    /\ cell = NoCell
    /\ Details = NoDetails

\* the handler and the player while the dungeon is being built or searched
HandlerIdle ==
    /\ Interactions = NoInteractions
    /\ Messages = <<>>
    /\ now = 0
    /\ player = NewPlayer(<<0, 0>>)
    /\ call = [op |-> "none"]
    /\ returned = NoResult
    /\ calls = 0

----------------------------------------------------------------------------
(* Calls on the InteractionHandler, as a caller of the component makes them. *)

\* A run on the registry makes up to MaxHandlerCalls Register and Handle calls.
MaxHandlerCalls == 4

\* A run on the message log makes up to MaxLogCalls Handle and AddMessage calls
\* while the clock runs from 0 to MaxTime tenths of a second.
MaxLogCalls == 7
MaxTime == 16

\* the clock advances by 0.5 or 1.1 seconds between calls, so that a message is
\* seen 0.5, 1.0, 1.1, 1.5 and 1.6 seconds after its creation
TickSteps == {5, 11}

\* the behaviours a caller registers, each under its own category
Registrations ==
    {<<Monster, NewMonsterInteraction(level)>> : level \in {1, 3}}
    \cup {<<Treasure, NewTreasureInteraction(20, ttype)>> :
              ttype \in {TreasureGold, TreasureGems, TreasureArtifact, TreasurePotion}}
    \cup {<<Treasure, NewTreasureInteraction(10, TreasureGold)>>}
    \cup {<<ExitT, NewExitInteraction(2)>>}

\* the players handed to Handle: <<Health, Defense, Luck>> of a player with
\* MaxHealth 100; the first is NewPlayer's
PlayerStarts == {<<100, 10, 5>>, <<5, 0, 0>>, <<95, 100, 50>>}

\* the categories Handle is called with
HandleCategories ==
    IF pc = "log" THEN {Monster} ELSE {Monster, Treasure, ExitT, Wall}

CallBudget == IF pc = "log" THEN MaxLogCalls ELSE MaxHandlerCalls

dungeonVars == <<Width, Height, Level, Cells, Entrance, Exit, walls, i, pc, start, goal, path>>

RegisterCall ==
    /\ pc = "handler"
    /\ calls < CallBudget
    /\ \E reg \in Registrations :
         /\ Interactions' = Register(Interactions, reg[1], reg[2])
         /\ call' = [op |-> "Register", cellType |-> reg[1], interaction |-> reg[2]]
    /\ returned' = NoResult
    /\ calls' = calls + 1
    /\ UNCHANGED <<Messages, now, player>>
    /\ UNCHANGED dungeonVars
    /\ UNCHANGED cellVars

HandleCall ==
    /\ pc \in {"handler", "log"}
    /\ calls < CallBudget
    /\ \E cellType \in HandleCategories :
         LET handled == Handle(Interactions, Messages, player, cellType, now)
         IN  /\ Messages' = handled.Messages
             /\ player' = handled.player
             /\ returned' = handled.result
             /\ call' = [op |-> "Handle", cellType |-> cellType]
    /\ calls' = calls + 1
    /\ UNCHANGED <<Interactions, now>>
    /\ UNCHANGED dungeonVars
    /\ UNCHANGED cellVars

AddMessageCall ==
    /\ pc = "log"
    /\ calls < CallBudget
    /\ Messages' = AddMessage(Messages, <<"note">>, now)
    /\ call' = [op |-> "AddMessage", msg |-> <<"note">>]
    /\ returned' = NoResult
    /\ calls' = calls + 1
    /\ UNCHANGED <<Interactions, now, player>>
    /\ UNCHANGED dungeonVars
    /\ UNCHANGED cellVars

UpdateMessagesCall ==
    /\ pc = "log"
    /\ Messages' = UpdateMessages(Messages, now)
    /\ call' = [op |-> "UpdateMessages"]
    /\ returned' = NoResult
    /\ UNCHANGED <<Interactions, now, player, calls>>
    /\ UNCHANGED dungeonVars
    /\ UNCHANGED cellVars

GetMessagesCall ==
    /\ pc = "log"
    /\ Messages' = UpdateMessages(Messages, now)
    /\ call' = [op |-> "GetMessages"]
    /\ returned' = [Texts |-> GetMessages(Messages')]
    /\ UNCHANGED <<Interactions, now, player, calls>>
    /\ UNCHANGED dungeonVars
    /\ UNCHANGED cellVars

\* time passes between two calls
Tick ==
    /\ pc = "log"
    /\ \E d \in TickSteps :
         /\ now + d <= MaxTime
         /\ now' = now + d
    /\ call' = [op |-> "none"]
    /\ returned' = NoResult
    /\ UNCHANGED <<Interactions, Messages, player, calls>>
    /\ UNCHANGED dungeonVars
    /\ UNCHANGED cellVars

\* no dungeon is involved in the calls on the handler
NoDungeon ==
    /\ Width = 3 /\ Height = 3
    /\ Level = 1
    /\ Cells = fillWithWalls(3, 3)
    /\ walls = <<>>
    /\ Entrance = <<0, 0>>
    /\ Exit = <<0, 0>>
    /\ i = 0
    /\ start = Point(0, 0)
    /\ goal = Point(0, 0)
    /\ path = Absent

\* a new handler and a player
InitHandler ==
    /\ CellsIdle
    /\ NoDungeon
    /\ pc = "handler"
    /\ Interactions = NoInteractions
    /\ Messages = <<>>
    /\ now = 0
    /\ \E st \in PlayerStarts :
         player = [NewPlayer(<<0, 0>>) EXCEPT !.Health = st[1], !.Defense = st[2], !.Luck = st[3]]
    /\ call = [op |-> "none"]
    /\ returned = NoResult
    /\ calls = 0

NextHandler == RegisterCall \/ HandleCall

SpecHandler == InitHandler /\ [][NextHandler]_vars

\* the handler as NewGame sets it up, and a new player
InitLog ==
    /\ CellsIdle
    /\ NoDungeon
    /\ pc = "log"
    /\ Interactions =
         Register(Register(Register(NoInteractions,
                                    Monster, NewMonsterInteraction(1)),
                           Treasure, NewTreasureInteraction(10, TreasureGold)),
                  ExitT, NewExitInteraction(2))
    /\ Messages = <<>>
    /\ now = 0
    /\ player = NewPlayer(<<0, 0>>)
    /\ call = [op |-> "none"]
    /\ returned = NoResult
    /\ calls = 0

NextLog ==
    \/ HandleCall
    \/ AddMessageCall
    \/ UpdateMessagesCall
    \/ GetMessagesCall
    \/ Tick

SpecLog == InitLog /\ [][NextLog]_vars

----------------------------------------------------------------------------

\* the dungeon sizes: the squares and rectangles up to MaxSide, and the
\* one-row dungeons long enough for all features to fit
Sizes == {<<w, h>> : w \in 3..MaxSide, h \in 3..MaxSide} \cup {<<w, 3>> : w \in LongWidths}

\* NewDungeon up to the first iteration of generateMaze's loop: the grid is
\* all Wall but the start cell, and the frontier holds the start's in-bounds
\* step-2 neighbours.
InitDungeon ==
    /\ \E size \in Sizes : Width = size[1] /\ Height = size[2]
    /\ Level = 1
    /\ Cells = setCellEmpty(fillWithWalls(Width, Height), MazeStart)
    /\ walls = getInitialWalls(MazeStart, MazeDirs, Width, Height)
    /\ Entrance = <<0, 0>>
    /\ Exit = <<0, 0>>
    /\ i = 0
    /\ pc = "generateMaze"
    /\ start = Point(0, 0)
    /\ goal = Point(0, 0)
    /\ path = Absent
    /\ HandlerIdle
    /\ CellsIdle

Init == InitDungeon

Next ==
    \/ MazeStep
    \/ PlaceEntrance
    \/ PlaceExitDeadEnd
    \/ PlaceExitFallback
    \/ PlaceMonster
    \/ PlaceTreasure

Spec == Init /\ [][Next]_vars

\* NewDungeon keeps running, and a draw that lets it go on comes up in the end.
FairSpec == Spec /\ WF_vars(Next)

\* FindPath on arbitrary grids of Wall and Empty cells, as a hand-built grid of
\* a test or a dungeon in play presents them
PathSizes == {<<w, h>> : w \in 2..MaxPathWidth, h \in PathHeights}

InitPath ==
    /\ \E size \in PathSizes : Width = size[1] /\ Height = size[2]
    /\ Level = 1
    /\ Cells \in [0..(Height - 1) -> [0..(Width - 1) -> {Wall, Empty}]]
    /\ walls = <<>>
    /\ Entrance = <<0, 0>>
    /\ Exit = <<0, 0>>
    /\ i = 0
    /\ pc = "findPath"
    /\ start = Point(0, 0)
    /\ goal = Point(0, 0)
    /\ path = Absent
    /\ HandlerIdle
    /\ CellsIdle

NextPath == CallFindPath

SpecPath == InitPath /\ [][NextPath]_vars

\* the points of the grid and those one step outside it
AroundPoints(width, height) ==
    {Point(px, py) : px \in (-1)..width, py \in (-1)..height}

\* A caller asks for a path whose start or goal lies outside the grid.
CallFindPathOutside ==
    /\ pc = "findPath"
    /\ \E s \in AroundPoints(Width, Height), g \in AroundPoints(Width, Height) :
         /\ s \notin GridPoints(Width, Height) \/ g \notin GridPoints(Width, Height)
         /\ start' = s
         /\ goal' = g
         /\ path' = FindPath(Cells, Width, Height, s, g)
    /\ pc' = "returned"
    /\ UNCHANGED <<Width, Height, Level, Cells, Entrance, Exit, walls, i>>
    /\ UNCHANGED handlerVars
    /\ UNCHANGED cellVars

NextPathOutside == CallFindPathOutside

SpecPathOutside == InitPath /\ [][NextPathOutside]_vars

----------------------------------------------------------------------------
(* The fields NewDungeon and startGame give to the cells they place. *)

\* The cells are followed for the dungeon levels 1..MaxDungeonLevel.
MaxDungeonLevel == 8

TierEasy == "TierEasy"
TierMedium == "TierMedium"
TierHard == "TierHard"
TierBoss == "TierBoss"

\* a monster level that is not floored at 1
MonsterLevelNoFloor(level, r) == level + r - 1

\* the level of a monster for the draw r of rand.Intn(3)
MonsterLevel(level, r) ==
    LET monsterLevel == level + r - 1
    IN  IF monsterLevel < 1 THEN 1 ELSE monsterLevel

\* lines 148-158: the tier of a monster level
MonsterTierOf(monsterLevel) ==
    IF monsterLevel <= 2 THEN TierEasy
    ELSE IF monsterLevel <= 4 THEN TierMedium
    ELSE IF monsterLevel <= 6 THEN TierHard
    ELSE TierBoss

\* lines 169-172: the value of a treasure for the draw r of rand.Intn(20)
TreasureValue(level, r) ==
    LET treasureValue == level * 10 + r - 10
    IN  IF treasureValue < 10 THEN 10 ELSE treasureValue

treasureTypes == <<TreasureGold, TreasureGems, TreasureArtifact, TreasurePotion>>

\* the Cell one iteration of the monster loop leaves, on an Empty cell that
\* placeRandomFeature has made a Monster
MonsterCell(level, r) ==
    [Type |-> Monster,
     InteractionLevel |-> MonsterLevel(level, r),
     TreasureType |-> "",
     MonsterTier |-> MonsterTierOf(MonsterLevel(level, r))]

\* the Cell one iteration of the treasure loop leaves, for the draws r of
\* rand.Intn(20) and k of rand.Intn(len(treasureTypes))
TreasureCell(level, r, k) ==
    [Type |-> Treasure,
     InteractionLevel |-> TreasureValue(level, r),
     TreasureType |-> treasureTypes[k + 1],
     MonsterTier |-> TierEasy]

\* line 117: the Cell written on the first dead end
ExitCellDeadEnd(level) ==
    [Type |-> ExitT, InteractionLevel |-> level + 1, TreasureType |-> "", MonsterTier |-> TierEasy]

\* lines 123, 129: the Empty cell that placeRandomFeature has made an Exit gets
\* its InteractionLevel
ExitCellFallback(level) ==
    [[NoCell EXCEPT !.Type = ExitT] EXCEPT !.InteractionLevel = level + 1]

\* the difficulties of the menu; the modifiers are in tenths (0.8 is 8)
difficulties ==
    <<[Level |-> 1, Label |-> "Easy", MonsterMod |-> 8, TreasureMod |-> 12],
      [Level |-> 2, Label |-> "Normal", MonsterMod |-> 10, TreasureMod |-> 10],
      [Level |-> 3, Label |-> "Hard", MonsterMod |-> 12, TreasureMod |-> 8],
      [Level |-> 4, Label |-> "Nightmare", MonsterMod |-> 15, TreasureMod |-> 7]>>

\* int(float64(n) * mod) for a modifier given in tenths; the float64 product
\* truncates to the same integer for every n below 90 and these modifiers
ScaleBy(n, tenths) == (n * tenths) \div 10

\* lines 434-445 of startGame: one cell under the modifiers of a difficulty
ApplyDifficulty(c, difficulty) ==
    IF c.Type = Monster
    THEN LET scaled == ScaleBy(c.InteractionLevel, difficulty.MonsterMod)
         IN  [c EXCEPT !.InteractionLevel = IF scaled < 1 THEN 1 ELSE scaled]
    ELSE IF c.Type = Treasure
    THEN LET scaled == ScaleBy(c.InteractionLevel, difficulty.TreasureMod)
         IN  [c EXCEPT !.InteractionLevel = IF scaled < 5 THEN 5 ELSE scaled]
    ELSE c

cellFrame == <<Width, Height, Level, Cells, Entrance, Exit, walls, i, start, goal, path,
               carves, Details>>

\* one iteration of the monster loop of NewDungeon
PlaceMonsterCell ==
    /\ pc = "cells"
    /\ \E r \in 0..2 :
         /\ cell' = MonsterCell(Level, r)
         /\ call' = [op |-> "placeMonster", r |-> r]
    /\ pc' = "placed"
    /\ UNCHANGED cellFrame
    /\ UNCHANGED <<Interactions, Messages, now, player, returned, calls>>

\* one iteration of the treasure loop of NewDungeon
PlaceTreasureCell ==
    /\ pc = "cells"
    /\ \E r \in 0..19, k \in 0..3 :
         /\ cell' = TreasureCell(Level, r, k)
         /\ call' = [op |-> "placeTreasure", r |-> r, k |-> k]
    /\ pc' = "placed"
    /\ UNCHANGED cellFrame
    /\ UNCHANGED <<Interactions, Messages, now, player, returned, calls>>

\* the Exit on a dead end
PlaceExitDeadEndCell ==
    /\ pc = "cells"
    /\ cell' = ExitCellDeadEnd(Level)
    /\ call' = [op |-> "placeExit", deadEnd |-> TRUE]
    /\ pc' = "placed"
    /\ UNCHANGED cellFrame
    /\ UNCHANGED <<Interactions, Messages, now, player, returned, calls>>

\* the Exit on a drawn cell that is far enough from the Entrance
PlaceExitFallbackCell ==
    /\ pc = "cells"
    /\ cell' = ExitCellFallback(Level)
    /\ call' = [op |-> "placeExit", deadEnd |-> FALSE]
    /\ pc' = "placed"
    /\ UNCHANGED cellFrame
    /\ UNCHANGED <<Interactions, Messages, now, player, returned, calls>>

\* startGame has called NewDungeon with the Level of the selected difficulty
\* and applies the modifiers of that difficulty to the cell
StartGameCell ==
    /\ pc = "placed"
    /\ \E d \in 1..Len(difficulties) :
         /\ difficulties[d].Level = Level
         /\ cell' = ApplyDifficulty(cell, difficulties[d])
         /\ call' = [op |-> "startGame", difficulty |-> difficulties[d].Label]
    /\ pc' = "started"
    /\ UNCHANGED cellFrame
    /\ UNCHANGED <<Interactions, Messages, now, player, returned, calls>>

\* NewDungeon(width, height, level) is about to place a cell
InitCells ==
    /\ Width = 3 /\ Height = 3
    /\ Level \in 1..MaxDungeonLevel
    /\ Cells = fillWithWalls(3, 3)
    /\ walls = <<>>
    /\ Entrance = <<0, 0>>
    /\ Exit = <<0, 0>>
    /\ i = 0
    /\ start = Point(0, 0)
    /\ goal = Point(0, 0)
    /\ path = Absent
    /\ pc = "cells"
    /\ HandlerIdle
    /\ CellsIdle

NextCells ==
    \/ PlaceMonsterCell
    \/ PlaceTreasureCell
    \/ PlaceExitDeadEndCell
    \/ PlaceExitFallbackCell
    \/ StartGameCell

SpecCells == InitCells /\ [][NextCells]_vars

(* Properties of the placed cells, under SpecCells *)

MaxOf(a, b) == IF a >= b THEN a ELSE b

TreasureKinds == {"gold", "gems", "artifact", "potion"}

\* C25: a Monster placed at dungeon level n has interactionLevel max(1, n + r)
\* for the draw r of -1..1, a Treasure has interactionLevel max(10, 10n + r) for
\* the draw r of -10..9 and a kind among gold, gems, artifact and potion, and
\* the Exit has interactionLevel n + 1 in the dead-end and in the fallback
\* placement.
C25_PlacedLevels ==
    pc = "placed" =>
        /\ cell.Type \in {Monster, Treasure, ExitT}
        /\ cell.Type = Monster =>
              /\ call.r - 1 \in (-1)..1
              /\ cell.InteractionLevel = MaxOf(1, Level + (call.r - 1))
        /\ cell.Type = Treasure =>
              /\ call.r - 10 \in (-10)..9
              /\ cell.InteractionLevel = MaxOf(10, 10 * Level + (call.r - 10))
              /\ cell.TreasureType \in TreasureKinds
        /\ cell.Type = ExitT => cell.InteractionLevel = Level + 1

\* a Monster of level 1 whose draw of -1 was floored at 1
C25_Witness ==
    /\ pc = "placed"
    /\ cell.Type = Monster
    /\ Level = 1
    /\ call.r = 0
    /\ cell.InteractionLevel = 1

\* the threshold classification of a level
TierByThreshold(level) ==
    CASE level <= 2 -> "TierEasy"
      [] level > 2 /\ level <= 4 -> "TierMedium"
      [] level > 4 /\ level <= 6 -> "TierHard"
      [] OTHER -> "TierBoss"

\* C22: as NewDungeon returns it and after startGame has applied the
\* difficulty modifiers, a Monster cell's monsterTier is the threshold
\* classification of its interactionLevel.
C22_TierIsClassification ==
    (pc \in {"placed", "started"} /\ cell.Type = Monster) =>
        cell.MonsterTier = TierByThreshold(cell.InteractionLevel)

\* the part of C22 that NewDungeon alone keeps
C22_TierAsPlaced ==
    (pc = "placed" /\ cell.Type = Monster) =>
        cell.MonsterTier = TierByThreshold(cell.InteractionLevel)

----------------------------------------------------------------------------
(* Notions the properties are stated in, defined without the operators above. *)

Abs(n) == IF n < 0 THEN -n ELSE n

\* two points are 4-adjacent
Adjacent(a, b) == Abs(a.x - b.x) + Abs(a.y - b.y) = 1

AllPoints == {[x |-> px, y |-> py] : px \in 0..(Width - 1), py \in 0..(Height - 1)}

\* the non-wall cells of the current grid
Floor == {p \in AllPoints : Cells[p.y][p.x] # "Wall"}

\* the closure of a set of non-wall cells under steps to 4-adjacent non-wall cells
RECURSIVE FloorClosure(_)
FloorClosure(seen) ==
    LET more == {q \in Floor \ seen : \E p \in seen : Adjacent(p, q)}
    IN  IF more = {} THEN seen ELSE FloorClosure(seen \cup more)

\* a 4-connected sequence of non-wall cells leads from a to b
Connected(a, b) == a \in Floor /\ b \in FloorClosure({a})

\* layers[k + 1] is the set of points from which the target is k steps away,
\* a step going from a point to a 4-adjacent non-wall cell
RECURSIVE StepLayers(_, _)
StepLayers(layers, seen) ==
    LET last == layers[Len(layers)]
        more == {c \in AllPoints \ seen : \E n \in last \cap Floor : Adjacent(c, n)}
    IN  IF more = {} THEN layers ELSE StepLayers(Append(layers, more), seen \cup more)

LayersTo(target) == StepLayers(<<{target}>>, {target})

\* the number of steps from c to the target of the layers, -1 if there is no way
StepsIn(layers, c) ==
    IF \E k \in 1..Len(layers) : c \in layers[k]
    THEN (CHOOSE k \in 1..Len(layers) : c \in layers[k]) - 1
    ELSE -1

UpRightDownLeft == <<[x |-> 0, y |-> -1], [x |-> 1, y |-> 0], [x |-> 0, y |-> 1], [x |-> -1, y |-> 0]>>

\* the directions, by their number in the order up, right, down, left, that
\* take c one step closer to the target of the layers
CloserDirs(layers, c) ==
    {d \in 1..4 :
        LET q == [x |-> c.x + UpRightDownLeft[d].x, y |-> c.y + UpRightDownLeft[d].y]
        IN  q \in Floor /\ StepsIn(layers, q) = StepsIn(layers, c) - 1}

MinOf(S) == CHOOSE m \in S : \A n \in S : m <= n

----------------------------------------------------------------------------
(* Properties of FindPath, under SpecPath. *)

\* C2: a returned path has the least number of steps of all ways from start
\* to goal through non-wall cells, and among the ways of that length it is the
\* one that takes, at every point, the first of the directions up, right,
\* down, left that still lies on a way of that length.
C2_ShortestFifoPath ==
    (pc = "returned" /\ path # <<>>) =>
        LET layers == LayersTo(goal)
        IN  /\ Len(path) - 1 = StepsIn(layers, start)
            /\ \A k \in 1..(Len(path) - 1) :
                 /\ CloserDirs(layers, path[k]) # {}
                 /\ LET d == UpRightDownLeft[MinOf(CloserDirs(layers, path[k]))]
                    IN  path[k + 1] = [x |-> path[k].x + d.x, y |-> path[k].y + d.y]

\* a call between two non-wall cells returned a path of at least two steps
\* where two directions at the start both lie on a shortest way
C2_Witness ==
    /\ pc = "returned"
    /\ path # <<>>
    /\ Len(path) >= 3
    /\ start \in Floor
    /\ Cardinality(CloserDirs(LayersTo(goal), start)) >= 2

\* C3, as claimed: a returned path starts at start, ends at goal, moves
\* between 4-adjacent points, visits no point twice and consists of in-bounds
\* non-wall cells.
C3_PathWellFormed ==
    (pc = "returned" /\ path # <<>>) =>
        /\ path[1] = start
        /\ path[Len(path)] = goal
        /\ \A k \in 1..(Len(path) - 1) : Adjacent(path[k], path[k + 1])
        /\ \A k, l \in 1..Len(path) : k # l => path[k] # path[l]
        /\ \A k \in 1..Len(path) : path[k] \in Floor

\* C3, as amended: a returned path starts at start, ends at goal, moves
\* between 4-adjacent points, visits no point twice, and every point after the
\* first is an in-bounds non-wall cell (the start itself is never examined).
C3_PathWellFormedAfterStart ==
    (pc = "returned" /\ path # <<>>) =>
        /\ path[1] = start
        /\ path[Len(path)] = goal
        /\ \A k \in 1..(Len(path) - 1) : Adjacent(path[k], path[k + 1])
        /\ \A k, l \in 1..Len(path) : k # l => path[k] # path[l]
        /\ \A k \in 2..Len(path) : path[k] \in Floor

\* a path of at least three points was returned for a start on a Wall cell
C3_Witness ==
    /\ pc = "returned"
    /\ Len(path) >= 3
    /\ Cells[start.y][start.x] = "Wall"

\* C4, as claimed: FindPath returns no path exactly when no 4-connected
\* sequence of non-wall cells leads from start to goal; in particular it
\* returns no path when the goal is a Wall cell.
C4_AbsentIffUnreachable ==
    pc = "returned" =>
        /\ (path = <<>>) <=> ~Connected(start, goal)
        /\ Cells[goal.y][goal.x] = "Wall" => path = <<>>

\* C4, as amended: FindPath returns no path exactly when the goal is not the
\* start and no sequence of steps to 4-adjacent non-wall cells leads from
\* start to goal; in particular it returns no path when the goal is a Wall
\* cell other than the start.
C4_AbsentIffNoWay ==
    pc = "returned" =>
        /\ (path = <<>>) <=> (goal \notin FloorClosure({start}))
        /\ (Cells[goal.y][goal.x] = "Wall" /\ goal # start) => path = <<>>

\* no path was returned between two non-wall cells
C4_Witness ==
    /\ pc = "returned"
    /\ path = <<>>
    /\ start \in Floor
    /\ goal \in Floor

\* the point lies in the grid
InGrid(p) == p.x >= 0 /\ p.x < Width /\ p.y >= 0 /\ p.y < Height

\* C24 as stated: a FindPath call with the start or the goal outside the grid
\* returns, and it returns absent whenever the goal is outside the grid.
C24_OutsideGoalAbsent ==
    pc = "returned" =>
        (~InGrid(goal) => path = <<>>)

\* C24 amended: a FindPath call with the start or the goal outside the grid
\* returns without an index error; every point of the path after the first is
\* a non-wall cell of the grid; for a goal outside the grid the result is
\* absent for every start but the goal itself, for which it is the path of
\* that one point.
C24_OutsideGoalAbsentUnlessStart ==
    pc = "returned" =>
        /\ \A k \in 2..Len(path) : InGrid(path[k]) /\ Cells[path[k].y][path[k].x] # "Wall"
        /\ (~InGrid(goal) /\ goal # start) => path = <<>>
        /\ (~InGrid(goal) /\ goal = start) => path = <<start>>

\* FindPath was called from a start outside the grid to a goal inside it and
\* returned a path of more than two points
C24_Witness ==
    /\ pc = "returned"
    /\ ~InGrid(start)
    /\ InGrid(goal)
    /\ Len(path) > 2

----------------------------------------------------------------------------
(* Properties of NewDungeon and generateMaze, under Spec and FairSpec. *)

EntrancePoint == [x |-> Entrance[1], y |-> Entrance[2]]
ExitPoint == [x |-> Exit[1], y |-> Exit[2]]

Interior == {p \in AllPoints : p.x >= 1 /\ p.x <= Width - 2 /\ p.y >= 1 /\ p.y <= Height - 2}

Count(type) == Cardinality({p \in AllPoints : Cells[p.y][p.x] = type})

EntrancePlaced == pc \in {"placeExit", "placeMonsters", "placeTreasures", "done"}
ExitPlaced == pc \in {"placeMonsters", "placeTreasures", "done"}
MazeFinished == pc = "generateMaze" /\ Len(walls) = 0

\* C1: in the grid in which the Entrance has just been placed, and in every
\* grid NewDungeon returns, FindPath from the Entrance to every non-wall cell
\* returns a path, and so does FindPath from every non-wall cell to the
\* Entrance.
C1_AllReachableFromEntrance ==
    pc \in {"placeExit", "done"} =>
        \A c \in Floor :
            /\ FindPath(Cells, Width, Height, EntrancePoint, c) # <<>>
            /\ FindPath(Cells, Width, Height, c, EntrancePoint) # <<>>

\* NewDungeon has returned a grid with a non-wall cell 20 steps from the Entrance
C1_Witness ==
    /\ pc = "done"
    /\ \E c \in Floor : Len(FindPath(Cells, Width, Height, EntrancePoint, c)) > 20

\* the number of unordered pairs of 4-adjacent non-wall cells
FloorPairs ==
    Cardinality({p \in Floor : [x |-> p.x + 1, y |-> p.y] \in Floor})
    + Cardinality({p \in Floor : [x |-> p.x, y |-> p.y + 1] \in Floor})

\* C5: during generateMaze and when it finishes, the non-wall cells form a
\* tree under 4-adjacency: they are connected and there is one adjacent pair
\* less than there are cells.
C5_MazeIsTree ==
    pc = "generateMaze" =>
        /\ FloorClosure({[x |-> 1, y |-> 1]}) = Floor
        /\ FloorPairs = Cardinality(Floor) - 1

\* generateMaze has finished a maze of 11 cells in a grid of even width
C5_Witness ==
    /\ MazeFinished
    /\ Width = 6 /\ Height = 5
    /\ Cardinality(Floor) = 11

\* C6: every cell of row 0, row Height-1, column 0 and column Width-1 is Wall.
C6_BorderIsWall ==
    \A p \in AllPoints \ Interior : Cells[p.y][p.x] = "Wall"

\* C7: when NewDungeon returns there are exactly one Entrance, one Exit, 10
\* Monster and 10 Treasure cells, the recorded Entrance and Exit are the
\* positions of the Entrance and Exit cells, and every step after carving
\* turned exactly one cell, Empty until then, into a feature.
C7_Counts ==
    pc = "done" =>
        /\ Count("Entrance") = 1
        /\ Count("Exit") = 1
        /\ Count("Monster") = 10
        /\ Count("Treasure") = 10
        /\ Cells[Entrance[2]][Entrance[1]] = "Entrance"
        /\ Cells[Exit[2]][Exit[1]] = "Exit"

C7_OntoEmpty ==
    (pc # "generateMaze" \/ Len(walls) = 0) =>
        /\ Cardinality({p \in AllPoints : Cells'[p.y][p.x] # Cells[p.y][p.x]}) = 1
        /\ \A p \in AllPoints :
             Cells'[p.y][p.x] # Cells[p.y][p.x] =>
                /\ Cells[p.y][p.x] = "Empty"
                /\ Cells'[p.y][p.x] \in {"Entrance", "Exit", "Monster", "Treasure"}

C7_FeaturesPlaced == [](C7_Counts) /\ [][C7_OntoEmpty]_vars

\* NewDungeon has returned a grid with 10 Monsters whose first maze cell holds
\* a Treasure
C7_Witness ==
    /\ pc = "done"
    /\ Count("Monster") = 10
    /\ Cells[1][1] = "Treasure"

\* the Empty interior cells a fallback draw of the Exit can stay on
FarCells ==
    {p \in Interior :
        /\ Cells[p.y][p.x] = "Empty"
        /\ (p.x - Entrance[1]) * (p.x - Entrance[1]) + (p.y - Entrance[2]) * (p.y - Entrance[2])
             >= ((Width + Height) \div 3) * ((Width + Height) \div 3)}

\* the dead ends of a grid given as a function from points to types
DeadEndsOf(typeOf(_)) ==
    {p \in Interior :
        /\ typeOf(p) = "Empty"
        /\ Cardinality({q \in {[x |-> p.x, y |-> p.y - 1], [x |-> p.x + 1, y |-> p.y],
                               [x |-> p.x, y |-> p.y + 1], [x |-> p.x - 1, y |-> p.y]} :
                           typeOf(q) = "Empty"}) = 1}

DeadEndsNow == LET typeOf(p) == Cells[p.y][p.x] IN DeadEndsOf(typeOf)

\* C8, as claimed: in a dungeon of width and height at least 5 NewDungeon
\* never comes to a point where no draw lets it go on before it has returned.
C8_AlwaysReturns ==
    (Width >= 5 /\ Height >= 5) => (pc = "done" \/ ENABLED Next)

\* the maze has a cell for every feature, and the Exit can be placed
RoomForFeatures ==
    /\ Cardinality(Interior \cap Floor) >= 2 + 10 + 10
    /\ (DeadEndsNow # {} \/ FarCells # {})

\* C8, as amended: under fair draws generateMaze ends and the Entrance is
\* placed, and if the maze then has at least 22 non-wall interior cells and
\* the Exit can be placed (there is a dead end, or an Empty interior cell far
\* enough from the Entrance), NewDungeon returns.
C8_ReturnsWhenRoom ==
    /\ (pc = "generateMaze") ~> (pc = "placeExit")
    /\ (pc = "placeExit" /\ RoomForFeatures) ~> (pc = "done")

\* NewDungeon has returned a dungeon of width 25
C8_Witness ==
    /\ pc = "done"
    /\ Width = 25

\* the measure that every iteration of generateMaze lowers
MazeMeasure == 4 * Count("Wall") + Len(walls)

C9_FrontierHasNeighbour ==
    /\ pc = "generateMaze" =>
         \A k \in 1..Len(walls) :
            Cells[walls[k].y][walls[k].x] = "Wall" =>
               \E q \in AllPoints :
                  /\ Cells[q.y][q.x] = "Empty"
                  /\ \/ (q.x = walls[k].x /\ Abs(q.y - walls[k].y) = 2)
                     \/ (q.y = walls[k].y /\ Abs(q.x - walls[k].x) = 2)
    /\ pc # "generateMaze" => Len(walls) = 0

C9_IterationProgress ==
    (pc = "generateMaze" /\ pc' = "generateMaze") =>
        /\ MazeMeasure' < MazeMeasure
        /\ \A p \in AllPoints :
             Cells'[p.y][p.x] # Cells[p.y][p.x] =>
                (Cells[p.y][p.x] = "Wall" /\ Cells'[p.y][p.x] = "Empty")

\* C9: generateMaze ends, whatever the draws: every iteration lowers
\* 4 * (number of Wall cells) + (length of the frontier), a cell changes only
\* from Wall to Empty, every frontier entry that is still Wall has an Empty
\* step-2 neighbour, and the frontier is empty once the loop is left.
C9_MazeTerminates == [](C9_FrontierHasNeighbour) /\ [][C9_IterationProgress]_vars

\* generateMaze has finished the maze of a 6 x 6 grid
C9_Witness ==
    /\ MazeFinished
    /\ Width = 6 /\ Height = 6
    /\ Cardinality(Floor) = 17

\* the grid as it was when the Exit was placed: the Exit, the Monsters and the
\* Treasures were Empty cells then
TypeBeforeExit(p) ==
    IF Cells[p.y][p.x] \in {"Exit", "Monster", "Treasure"} THEN "Empty" ELSE Cells[p.y][p.x]

SqDistToEntrance(p) ==
    (p.x - Entrance[1]) * (p.x - Entrance[1]) + (p.y - Entrance[2]) * (p.y - Entrance[2])

\* C10: once the Exit is placed, and so when NewDungeon returns: if the grid
\* had a dead end after the Entrance was placed, the Exit is on a dead end
\* that is at least as far from the Entrance as every other dead end;
\* otherwise the Exit is at squared distance >= ((Width+Height)/3)^2.
C10_ExitPlacement ==
    ExitPlaced =>
        LET deadEnds == DeadEndsOf(TypeBeforeExit)
        IN  /\ Cells[Exit[2]][Exit[1]] = "Exit"
            /\ IF deadEnds # {}
               THEN /\ ExitPoint \in deadEnds
                    /\ \A d \in deadEnds :
                          SqDistToEntrance(ExitPoint) >= SqDistToEntrance(d)
               ELSE SqDistToEntrance(ExitPoint)
                       >= ((Width + Height) \div 3) * ((Width + Height) \div 3)

\* NewDungeon has returned a grid that had at least three dead ends, one of
\* them nearer to the Entrance than the Exit is
C10_Witness ==
    /\ pc = "done"
    /\ Cardinality(DeadEndsOf(TypeBeforeExit)) >= 3
    /\ \E d \in DeadEndsOf(TypeBeforeExit) :
          SqDistToEntrance(d) < SqDistToEntrance(ExitPoint)

\* the Empty cells with odd coordinates: the rooms of the maze
Rooms == {p \in AllPoints : Cells[p.y][p.x] = "Empty" /\ p.x % 2 = 1 /\ p.y % 2 = 1}

\* C23 as stated: while generateMaze runs and when it ends, the number of
\* Empty cells is one less than the number of carve operations made.
C23_EmptyIsCarvesLessOne ==
    pc = "generateMaze" => Count("Empty") = carves - 1

\* C23 amended: while generateMaze runs and when it ends, the number of Empty
\* cells is twice the number of carve operations plus one, and the number of
\* rooms among them is one more than the number of carve operations.
C23_EmptyIsTwiceCarvesPlusOne ==
    pc = "generateMaze" =>
        /\ Count("Empty") = 2 * carves + 1
        /\ Cardinality(Rooms) = carves + 1

\* generateMaze has ended on a 5 x 5 grid after three carve operations
C23_Witness ==
    /\ pc = "generateMaze"
    /\ Len(walls) = 0
    /\ Width = 5 /\ Height = 5
    /\ carves = 3
    /\ Count("Empty") = 7

\* the non-wall 4-neighbours of an interior point
FloorNeighbours(p) ==
    {q \in {[x |-> p.x, y |-> p.y - 1], [x |-> p.x + 1, y |-> p.y],
            [x |-> p.x, y |-> p.y + 1], [x |-> p.x - 1, y |-> p.y]} :
        Cells[q.y][q.x] # "Wall"}

\* C29: once the Exit is placed, if the grid had a dead end after the Entrance
\* was placed (so the dead-end policy placed the Exit), the Exit cell has
\* exactly one non-wall 4-neighbour and is not adjacent to the Entrance.
C29_ExitIsLeaf ==
    (ExitPlaced /\ DeadEndsOf(TypeBeforeExit) # {}) =>
        /\ Cardinality(FloorNeighbours(ExitPoint)) = 1
        /\ ~Adjacent(ExitPoint, EntrancePoint)

----------------------------------------------------------------------------
(* The game in play: Player.MoveTo and Player.Update on the dungeon of the
   Game, frame by frame as Game.Update calls them. *)

\* The play is followed up to dungeon level MaxLevel and up to MaxPlayCalls
\* Handle calls: enough to clear the way from the Entrance to the Exit, to take
\* the Exit and to go on in the next dungeon.
MaxLevel == 2
MaxPlayCalls == 12

\* the draws of NewDungeon that the play follows: the index of the Entrance
\* among the Empty cells in scan order, and which of the first PlaceFan Empty
\* cells each iteration of the monster and of the treasure loop takes
EntranceDraws == {12}
FeatureDraws == 1..PlaceFan

\* generateMaze from the frontier on, each random index drawn as 0
RECURSIVE generateMazeFrom(_, _, _, _)
generateMazeFrom(cells, frontier, width, height) ==
    IF Len(frontier) = 0 THEN cells
    ELSE LET wall == frontier[1]
             rest == removeAt(frontier, 1)
             neighbors == getEmptyNeighbors(cells, wall, MazeDirs, width, height)
         IN  IF isEmpty(cells, wall) \/ Len(neighbors) = 0
             THEN generateMazeFrom(cells, rest, width, height)
             ELSE LET carved == carvePath(cells, wall, neighbors[1])
                  IN  generateMazeFrom(carved,
                                       rest \o addAdjacentWalls(carved, wall, MazeDirs, width, height),
                                       width, height)

generateMaze(width, height) ==
    generateMazeFrom(setCellEmpty(fillWithWalls(width, height), MazeStart),
                     getInitialWalls(MazeStart, MazeDirs, width, height),
                     width, height)

\* n iterations of a placement loop, each taking the draw-th cell that
\* placeRandomFeature can return
RECURSIVE placeFeatures(_, _, _, _, _, _)
placeFeatures(cells, type, n, draw, width, height) ==
    IF n = 0 THEN cells
    ELSE LET found == placeRandomFeature(cells, Empty, width, height)
         IN  placeFeatures(setCell(cells, found[Min(draw, Len(found))], type),
                           type, n - 1, draw, width, height)

\* the cells the n iterations of a placement loop take, in the order of the
\* iterations
RECURSIVE featureCells(_, _, _, _, _, _)
featureCells(cells, type, n, draw, width, height) ==
    IF n = 0 THEN <<>>
    ELSE LET found == placeRandomFeature(cells, Empty, width, height)
             c == found[Min(draw, Len(found))]
         IN  <<c>> \o featureCells(setCell(cells, c, type), type, n - 1, draw, width, height)

\* the draws of the k-th iteration of the monster loop and of the treasure
\* loop that the play follows: rand.Intn(3), rand.Intn(20) and
\* rand.Intn(len(treasureTypes))
LevelDraw(k) == k % 3
ValueDraw(k) == (7 * k) % 20
KindDraw(k) == k % 4

\* the fields of a Cell other than its Type
DetailsOf(c) ==
    [InteractionLevel |-> c.InteractionLevel,
     TreasureType |-> c.TreasureType,
     MonsterTier |-> c.MonsterTier]

\* the fields the monster loop and the treasure loop give to the cells they
\* take
placedDetails(monsters, treasures, level) ==
    LET IndexIn(seq, c) == CHOOSE k \in 1..Len(seq) : seq[k] = c
        Taken(seq) == {seq[k] : k \in 1..Len(seq)}
    IN  [c \in Taken(monsters) \cup Taken(treasures) |->
            IF c \in Taken(monsters)
            THEN DetailsOf(MonsterCell(level, LevelDraw(IndexIn(monsters, c))))
            ELSE DetailsOf(TreasureCell(level, ValueDraw(IndexIn(treasures, c)),
                                        KindDraw(IndexIn(treasures, c))))]

\* the Dungeon NewDungeon(width, height, level) returns for the given draws
NewDungeon(width, height, level, entranceDraw, monsterDraw, treasureDraw) ==
    LET maze == generateMaze(width, height)
        entrance == placeRandomFeature(maze, Empty, width, height)[entranceDraw]
        withEntrance == setCell(maze, entrance, EntranceT)
        deadEnds == sortDeadEndsByDistance(findDeadEnds(withEntrance, width, height), entrance)
        exit == deadEnds[1]
        withExit == setCell(withEntrance, exit, ExitT)
        withMonsters == placeFeatures(withExit, Monster, NumMonsters, monsterDraw, width, height)
        withTreasures == placeFeatures(withMonsters, Treasure, NumTreasures, treasureDraw, width, height)
        monsters == featureCells(withExit, Monster, NumMonsters, monsterDraw, width, height)
        treasures == featureCells(withMonsters, Treasure, NumTreasures, treasureDraw, width, height)
    IN  [Cells |-> withTreasures, Width |-> width, Height |-> height,
         Entrance |-> entrance, Exit |-> exit, Level |-> level,
         Details |-> placedDetails(monsters, treasures, level)]

\* a dungeon of five rows in which all features fit: its two corridors are
\* joined at their left ends
TallWidth == 13
TallHeight == 5

\* the dungeons of a level that the play follows: the one-row dungeons in
\* which both placement loops take the same draw, and a dungeon of another
\* shape whose Entrance is the first Empty cell
NewDungeons(level) ==
    {NewDungeon(w, 3, level, e, m, m) :
        w \in LongWidths, e \in EntranceDraws, m \in FeatureDraws}
    \cup {NewDungeon(TallWidth, TallHeight, level, 1, 1, 1)}

\* the tiles a click can name, among those HandleInput passes on: the Exit, the
\* Entrance and a corner of the grid
Targets == {Exit, Entrance, <<0, 0>>}

\* the behaviours Game.Update has registered when its loop over the cells
\* ends: the loop registers a behaviour for every Monster, Treasure and Exit
\* cell, row by row, and each Register replaces the behaviour of the category,
\* so the behaviour of the last cell of a category in the scan stays
RegisterFromCells(interactions, cells, details, width, height, level) ==
    LET Has(type) == \E px \in 0..(width - 1), py \in 0..(height - 1) : cells[py][px] = type
        Last(type) ==
            CHOOSE c \in {<<px, py>> : px \in 0..(width - 1), py \in 0..(height - 1)} :
                /\ cells[c[2]][c[1]] = type
                /\ \A px \in 0..(width - 1), py \in 0..(height - 1) :
                      cells[py][px] = type =>
                          (py < c[2] \/ (py = c[2] /\ px <= c[1]))
        monsters == IF Has(Monster)
                    THEN Register(interactions, Monster,
                                  NewMonsterInteraction(details[Last(Monster)].InteractionLevel))
                    ELSE interactions
        treasures == IF Has(Treasure)
                     THEN Register(monsters, Treasure,
                                   NewTreasureInteraction(details[Last(Treasure)].InteractionLevel,
                                                          details[Last(Treasure)].TreasureType))
                     ELSE monsters
    IN  IF Has(ExitT)
        THEN Register(treasures, ExitT, NewExitInteraction(level + 1))
        ELSE treasures

\* a MoveTo that leaves the next cell as it is whatever the result says
MoveToStepKeepsEntity(cells, found, result) == cells

\* lines 57-59 of MoveTo: the grid after the result of Handle for the cell
\* found[2]
MoveToStep(cells, found, result) ==
    IF result.RemoveEntity
    THEN setCell(cells, <<found[2].x, found[2].y>>, Empty)
    ELSE cells

\* a start position next to the Entrance
StartBesideEntrance(dungeon) == <<dungeon.Entrance[1] + 1, dungeon.Entrance[2]>>

\* lines 71-72 of MoveTo: the player's position in the new dungeon
StartPosition(dungeon) == dungeon.Entrance

\* a pending path of one step, however long the path found is
PendingPathOneStep(found) == SubSeq(found, 2, 2)

\* line 81 of MoveTo: path[1:], the path found without the current position
PendingPath(found) == SubSeq(found, 2, Len(found))

\* Player.MoveTo(target) in a frame in which HandleInput passes the click on
MoveTo(target) ==
    /\ pc = "HandleInput"
    /\   LET found == FindPath(Cells, Width, Height,
                               Point(player.X, player.Y), Point(target[1], target[2]))
         IN  /\ call' = [op |-> "MoveTo", target |-> target, found |-> found]
             /\ IF Len(found) > 1
                THEN LET next == found[2]
                         cellType == Cells[next.y][next.x]
                     IN  IF cellType \in {Monster, Treasure, ExitT}
                         THEN LET handled == Handle(Interactions, Messages, player, cellType, now)
                                  cleared == MoveToStep(Cells, found, handled.result)
                              IN  /\ calls < MaxPlayCalls
                                  /\ Messages' = handled.Messages
                                  /\ returned' = handled.result
                                  /\ calls' = calls + 1
                                  /\ IF cellType = ExitT
                                     THEN /\ Level < MaxLevel
                                          /\ \E dungeon \in NewDungeons(Level + 1) :
                                               /\ Cells' = dungeon.Cells
                                               /\ Width' = dungeon.Width
                                               /\ Height' = dungeon.Height
                                               /\ Entrance' = dungeon.Entrance
                                               /\ Exit' = dungeon.Exit
                                               /\ Level' = dungeon.Level
                                               /\ Details' = dungeon.Details
                                               /\ player' = [handled.player EXCEPT
                                                                !.X = StartPosition(dungeon)[1],
                                                                !.Y = StartPosition(dungeon)[2]]
                                     ELSE /\ Cells' = cleared
                                          /\ player' = IF cleared[next.y][next.x] = Empty
                                                       THEN [handled.player EXCEPT !.Path = SubSeq(found, 2, 2)]
                                                       ELSE handled.player
                                          /\ UNCHANGED <<Width, Height, Level, Entrance, Exit, Details>>
                         ELSE /\ player' = [player EXCEPT !.Path = PendingPath(found)]
                              /\ returned' = NoResult
                              /\ UNCHANGED <<Cells, Width, Height, Level, Entrance, Exit, Details, Messages, calls>>
                ELSE /\ returned' = NoResult
                     /\ UNCHANGED <<Cells, Width, Height, Level, Entrance, Exit, Details, Messages, player, calls>>
    /\ pc' = "playerUpdate"
    /\ UNCHANGED <<Interactions, now, walls, i>>
    /\ UNCHANGED <<carves, cell>>

\* a click on one of the tiles
MoveToCall ==
    /\ \E target \in Targets : MoveTo(target)
    /\ UNCHANGED <<start, goal, path>>

\* a frame without a click on the grid
NoClick ==
    /\ pc = "HandleInput"
    /\ pc' = "playerUpdate"
    /\ call' = [op |-> "none"]
    /\ returned' = NoResult
    /\ UNCHANGED <<Width, Height, Level, Cells, Entrance, Exit, walls, i, start, goal, path>>
    /\ UNCHANGED <<Interactions, Messages, now, player, calls>>
    /\ UNCHANGED cellVars

\* Player.Update; dungeon.Cells[next.y][next.x] with an index out of range
\* stops the program with a run-time panic
PlayerUpdate ==
    /\ pc = "playerUpdate"
    /\ IF player.moveCooldown > 0
       THEN /\ player' = [player EXCEPT !.moveCooldown = @ - 1]
            /\ pc' = "Register"
       ELSE IF Len(player.Path) > 0
            THEN LET next == player.Path[1]
                 IN  IF ~inBounds(next.x, next.y, Width, Height)
                     THEN /\ player' = player
                          /\ pc' = "panic"
                     ELSE /\ pc' = "Register"
                          /\ IF Cells[next.y][next.x] \in {Monster, Treasure}
                             THEN player' = [player EXCEPT !.Path = <<>>]
                             ELSE player' = [player EXCEPT !.X = next.x,
                                                           !.Y = next.y,
                                                           !.Path = Tail(@),
                                                           !.moveCooldown = 10]
            ELSE /\ player' = player
                 /\ pc' = "Register"
    /\ call' = [op |-> "Update"]
    /\ returned' = NoResult
    /\ UNCHANGED <<Width, Height, Level, Cells, Entrance, Exit, walls, i, start, goal, path>>
    /\ UNCHANGED <<Interactions, Messages, now, calls>>
    /\ UNCHANGED cellVars

\* the loop that ends Game.Update
RegisterCells ==
    /\ pc = "Register"
    /\ Interactions' = RegisterFromCells(Interactions, Cells, Details, Width, Height, Level)
    /\ pc' = "HandleInput"
    /\ call' = [op |-> "Register"]
    /\ returned' = NoResult
    /\ UNCHANGED <<Width, Height, Level, Cells, Entrance, Exit, walls, i, start, goal, path>>
    /\ UNCHANGED <<Messages, now, player, calls>>
    /\ UNCHANGED cellVars

\* the Game NewGame returns, before the first frame
InitPlay ==
    /\ carves = 0
    /\ cell = NoCell
    /\ \E dungeon \in NewDungeons(1) :
         /\ Cells = dungeon.Cells
         /\ Details = dungeon.Details
         /\ Width = dungeon.Width
         /\ Height = dungeon.Height
         /\ Entrance = dungeon.Entrance
         /\ Exit = dungeon.Exit
         /\ Level = dungeon.Level
         /\ player = NewPlayer(dungeon.Entrance)
    /\ walls = <<>>
    /\ i = 0
    /\ start = Point(0, 0)
    /\ goal = Point(0, 0)
    /\ path = Absent
    /\ pc = "HandleInput"
    /\ Interactions =
         Register(Register(Register(NoInteractions,
                                    Monster, NewMonsterInteraction(1)),
                           Treasure, NewTreasureInteraction(10, TreasureGold)),
                  ExitT, NewExitInteraction(2))
    /\ Messages = <<>>
    /\ now = 0
    /\ call = [op |-> "none"]
    /\ returned = NoResult
    /\ calls = 0

NextPlay ==
    \/ MoveToCall
    \/ NoClick
    \/ PlayerUpdate
    \/ RegisterCells

SpecPlay == InitPlay /\ [][NextPlay]_vars

(* The play up to a last click: after it no further input arrives, and the
   frames go on. *)

\* The clicks before the last one resolve at most MaxWalkCalls cells.
MaxWalkCalls == 2

\* a click that is not the last one
EarlierClick ==
    /\ Len(path) = 0
    /\ calls < MaxWalkCalls
    /\ MoveToCall

\* the last click, on a tile FindPath reaches: start, goal and path keep the
\* arguments and the result of its FindPath call
LastClick ==
    /\ Len(path) = 0
    /\ \E target \in Targets :
         /\ MoveTo(target)
         /\ Len(call'.found) > 0
         /\ start' = Point(player.X, player.Y)
         /\ goal' = Point(target[1], target[2])
         /\ path' = call'.found

NextWalk ==
    \/ EarlierClick
    \/ LastClick
    \/ NoClick
    \/ PlayerUpdate
    \/ RegisterCells

SpecWalk == InitPlay /\ [][NextWalk]_vars

\* ebiten calls Game.Update every tick, and each call runs HandleInput,
\* Player.Update and the registration loop to their ends
FairWalk ==
    /\ SpecWalk
    /\ WF_vars(NoClick)
    /\ WF_vars(PlayerUpdate)
    /\ WF_vars(RegisterCells)

----------------------------------------------------------------------------
(* Properties of the InteractionHandler, under SpecHandler and SpecLog. *)

\* the step is a Handle call for a category with a behaviour
HandleRegisteredStep ==
    /\ calls' = calls + 1
    /\ call'.op = "Handle"
    /\ call'.cellType \in DOMAIN Interactions

\* the step is a Handle call for a category without a behaviour
HandleUnregisteredStep ==
    /\ calls' = calls + 1
    /\ call'.op = "Handle"
    /\ call'.cellType \notin DOMAIN Interactions

C11_HealthCapped == player.Health <= player.MaxHealth

C11_HandleStep ==
    HandleRegisteredStep =>
        /\ player'.Health =
              (IF player.Health + returned'.HealthChange < player.MaxHealth
               THEN player.Health + returned'.HealthChange
               ELSE player.MaxHealth)
        /\ player'.Score = player.Score + returned'.ScoreChange

\* C11: a Handle call on a registered category leaves health = min(maxHealth,
\* previous health + healthChange), with no lower clamp, and score = previous
\* score + scoreChange; health <= maxHealth holds throughout.
C11_HealthAndScore == [](C11_HealthCapped) /\ [][C11_HandleStep]_vars

\* a registered Handle call has left the health below zero
C11_Witness ==
    /\ call.op = "Handle"
    /\ call.cellType \in DOMAIN Interactions
    /\ player.Health < 0

\* C12: Handle(Monster) with a Monster behaviour of level L registered and an
\* actor of defense D returns healthChange = -floor((5 + 2L)(100 - D) / 100),
\* scoreChange = 10 + 5L and removeEntity = true.
C12_MonsterOutcome ==
    (call.op = "Handle" /\ call.cellType = Monster /\ Monster \in DOMAIN Interactions) =>
        LET L == Interactions[Monster].Level
            D == player.Defense
        IN  /\ L >= 1 /\ D >= 0 /\ D <= 100
            /\ returned.HealthChange = -(((5 + 2 * L) * (100 - D)) \div 100)
            /\ returned.ScoreChange = 10 + 5 * L
            /\ returned.RemoveEntity = TRUE

\* a level 3 monster was handled by an actor of defense 10: damage 9, score 25
C12_Witness ==
    /\ call.op = "Handle" /\ call.cellType = Monster
    /\ Monster \in DOMAIN Interactions
    /\ Interactions[Monster].Level = 3
    /\ player.Defense = 10
    /\ returned.HealthChange = -9
    /\ returned.ScoreChange = 25

\* C13: Handle(Treasure) with a Treasure behaviour of value V and kind K
\* registered and an actor of luck U returns scoreChange =
\* floor(V (100 + U) / 100), healthChange = 10 for a potion and 0 for gold, gems
\* and artifact, and removeEntity = true.
C13_TreasureOutcome ==
    (call.op = "Handle" /\ call.cellType = Treasure /\ Treasure \in DOMAIN Interactions) =>
        LET V == Interactions[Treasure].Value
            K == Interactions[Treasure].Type
            U == player.Luck
        IN  /\ returned.ScoreChange = (V * (100 + U)) \div 100
            /\ K = TreasurePotion => returned.HealthChange = 10
            /\ K \in {TreasureGold, TreasureGems, TreasureArtifact} => returned.HealthChange = 0
            /\ K \in {TreasureGold, TreasureGems, TreasureArtifact, TreasurePotion}
            /\ returned.RemoveEntity = TRUE

\* a potion of value 20 was handled by an actor of luck 5: score 21, health +10
C13_Witness ==
    /\ call.op = "Handle" /\ call.cellType = Treasure
    /\ Treasure \in DOMAIN Interactions
    /\ Interactions[Treasure].Value = 20
    /\ Interactions[Treasure].Type = TreasurePotion
    /\ player.Luck = 5
    /\ returned.ScoreChange = 21
    /\ returned.HealthChange = 10

C14_NoOpStep ==
    HandleUnregisteredStep =>
        /\ returned'.Message = <<"Nothing happens.">>
        /\ returned'.HealthChange = 0
        /\ returned'.ScoreChange = 0
        /\ returned'.RemoveEntity = FALSE
        /\ player'.Health = player.Health
        /\ player'.Score = player.Score
        /\ Interactions' = Interactions

\* C14: a Handle call for a category without a behaviour returns "Nothing
\* happens." with healthChange 0, scoreChange 0 and removeEntity false, and
\* leaves the actor's health and score and the registry as they were.
C14_UnregisteredNoOp == [][C14_NoOpStep]_vars

\* Handle was called for a category without a behaviour while another
\* category had one
C14_Witness ==
    /\ call.op = "Handle"
    /\ call.cellType \notin DOMAIN Interactions
    /\ DOMAIN Interactions # {}
    /\ returned.Message = <<"Nothing happens.">>

\* the call before this one was a Handle call for a category without a behaviour
AfterUnregisteredHandle ==
    /\ call.op = "Handle"
    /\ call.cellType \notin DOMAIN Interactions

C15_AppendStep ==
    HandleUnregisteredStep =>
        /\ Len(Messages') > 0
        /\ Len(Messages') = Len(Messages) + 1 \/ (Len(Messages) = 5 /\ Len(Messages') = 5)
        /\ Messages'[Len(Messages')].Text = <<"Nothing happens.">>
        /\ AfterUnregisteredHandle => returned' = returned

C15_SilentStep ==
    HandleUnregisteredStep =>
        /\ returned'.Message = <<"Nothing happens.">>
        /\ Messages' = Messages
        /\ AfterUnregisteredHandle => returned' = returned

AppendStep ==
    /\ calls' = calls + 1
    /\ \/ call'.op = "AddMessage"
       \/ call'.op = "Handle" /\ call'.cellType \in DOMAIN Interactions

\* the text and the creation time of each message, in the order of the log
Stamps(messages) ==
    [k \in 1..Len(messages) |-> <<messages[k].Text, messages[k].CreatedAt>>]

C16_Capped ==
    /\ Len(Messages) <= 5
    /\ \A k \in 1..(Len(Messages) - 1) : Messages[k].CreatedAt <= Messages[k + 1].CreatedAt
    /\ call.op = "GetMessages" => Len(returned.Texts) <= 5

C16_AppendStep ==
    AppendStep =>
        LET text == IF call'.op = "AddMessage" THEN call'.msg ELSE returned'.Message
            kept == IF Len(Messages) = 5 THEN Tail(Stamps(Messages)) ELSE Stamps(Messages)
        IN  Stamps(Messages') = Append(kept, <<text, now>>)

\* C16: the log never holds more than 5 messages, they are in creation order
\* with the most recent last, and an append to a log of 5 evicts exactly the
\* oldest message.
C16_LogCapped == [](C16_Capped) /\ [][C16_AppendStep]_vars

\* 7 Handle calls on the Monster category within the lifetime, two of them at
\* time 0 and five at 0.5: the five messages left are those of 0.5
C16_Witness ==
    /\ calls = 7
    /\ player.Score = 105
    /\ now = 5
    /\ Len(Messages) = 5
    /\ \A k \in 1..5 : Messages[k].CreatedAt = 5

\* the step is an UpdateMessages or a GetMessages call
ExpiryStep ==
    /\ call'.op \in {"UpdateMessages", "GetMessages"}
    /\ now' = now
    /\ calls' = calls

C17_NoneExpired ==
    /\ \A k \in 1..Len(Messages) : Messages[k].CreatedAt <= now
    /\ call.op \in {"UpdateMessages", "GetMessages"} =>
          \A k \in 1..Len(Messages) : now < Messages[k].CreatedAt + 15
    /\ call.op = "GetMessages" =>
          returned.Texts = [k \in 1..Len(Messages) |-> Messages[k].Text]

C17_ExpiryStep ==
    LET Young(stamp) == now < stamp[2] + 15
    IN  /\ ExpiryStep => Stamps(Messages') = SelectSeq(Stamps(Messages), Young)
        /\ ~ExpiryStep /\ ~AppendStep => Messages' = Messages
        /\ now' >= now

C18_RegisterStep ==
    /\ (calls' = calls + 1 /\ call'.op = "Register") =>
          /\ DOMAIN Interactions' = DOMAIN Interactions \cup {call'.cellType}
          /\ Interactions'[call'.cellType] = call'.interaction
          /\ \A c \in DOMAIN Interactions \ {call'.cellType} : Interactions'[c] = Interactions[c]
          /\ Messages' = Messages
          /\ player' = player
    /\ call'.op # "Register" => Interactions' = Interactions
    /\ HandleRegisteredStep =>
          returned' = Interact(Interactions[call'.cellType], player)

\* C18: Register replaces the behaviour of its category only and changes
\* neither the other behaviours nor the log nor the actor; the registry changes
\* in no other way, and Handle uses the behaviour the registry holds for its
\* category, which is then the one registered last.
C18_RegisterReplacesOne == [][C18_RegisterStep]_vars

\* Register(Monster, level 1), Handle, Register(Monster, level 3), Handle: the
\* second Handle scores 25 after the first scored 15
C18_Witness ==
    /\ calls = 4
    /\ call.op = "Handle" /\ call.cellType = Monster
    /\ returned.ScoreChange = 25
    /\ player.Score = 40
    /\ Len(Messages) = 2

C30_ScoreStep ==
    /\ player'.Score >= player.Score
    /\ HandleRegisteredStep => player'.Score > player.Score
    /\ player'.Score # player.Score => calls' = calls + 1

\* C30: the score never decreases: every step leaves it at least as high as
\* it was, a Handle call on a registered category leaves it strictly higher,
\* and it changes in no other step.
C30_ScoreNeverDecreases == [][C30_ScoreStep]_vars

\* a gold treasure of value 10 handled by an actor of luck 0, the smallest
\* gain, after another registered Handle call
C30_Witness ==
    /\ call.op = "Handle" /\ call.cellType = Treasure
    /\ Treasure \in DOMAIN Interactions
    /\ player.Luck = 0
    /\ returned.ScoreChange = 10
    /\ player.Score > 10

----------------------------------------------------------------------------
(* Properties of the play, under SpecPlay. *)

\* the <<x, y>> positions of the current grid
GridCells == {<<px, py>> : px \in 0..(Width - 1), py \in 0..(Height - 1)}

\* the step is a MoveTo call whose next cell on the path has one of the types
MoveToOnto(types) ==
    /\ pc = "HandleInput"
    /\ call'.op = "MoveTo"
    /\ Len(call'.found) > 1
    /\ Cells[call'.found[2].y][call'.found[2].x] \in types

\* the Monster and Treasure cells left in the grid
Entities == {c \in GridCells : Cells[c[2]][c[1]] \in {Monster, Treasure}}

C19_CellStep ==
    Level' = Level =>
        /\ \A c \in GridCells :
              Cells'[c[2]][c[1]] # Cells[c[2]][c[1]] =>
                  /\ Cells[c[2]][c[1]] \in {Monster, Treasure}
                  /\ Cells'[c[2]][c[1]] = Empty
                  /\ MoveToOnto({Monster, Treasure})
                  /\ c = <<call'.found[2].x, call'.found[2].y>>
                  /\ calls' = calls + 1
                  /\ returned'.RemoveEntity = TRUE
        /\ MoveToOnto({Monster, Treasure}) =>
              /\ calls' = calls + 1
              /\ Cells'[call'.found[2].y][call'.found[2].x] = Empty
        /\ ~MoveToOnto({Monster, Treasure, ExitT}) => calls' = calls

\* C19: within one level a cell changes only from Monster or Treasure to
\* Empty, and only in the MoveTo whose Handle call returned removeEntity true
\* for it; an Empty, Wall, Entrance or Exit cell never changes.  Every Handle
\* call on a Monster or Treasure cell empties it, so none is resolved twice:
\* in the first dungeon the calls made and the entities left add up to the
\* entities placed.
C19_CellsOnlyCleared ==
    /\ [][C19_CellStep]_vars
    /\ [](Level = 1 => calls + Cardinality(Entities) = NumMonsters + NumTreasures)

\* after ten resolutions in the first dungeon a MoveTo whose next cell is
\* Empty resolves nothing
C19_Witness ==
    /\ Level = 1
    /\ calls = 10
    /\ call.op = "MoveTo"
    /\ Len(call.found) > 1
    /\ Cells[call.found[2].y][call.found[2].x] = Empty
    /\ returned = NoResult
    /\ Cardinality(Entities) = 10

C20_ExitStep ==
    MoveToOnto({ExitT}) =>
        /\ Level' = Level + 1
        /\ Cells'[Entrance'[2]][Entrance'[1]] = EntranceT
        /\ Cells'[Exit'[2]][Exit'[1]] = ExitT
        /\ Cardinality({c \in {<<px, py>> : px \in 0..(Width' - 1), py \in 0..(Height' - 1)} :
                            Cells'[c[2]][c[1]] \in {Monster, Treasure}}) = NumMonsters + NumTreasures
        /\ <<player'.X, player'.Y>> = Entrance'
        /\ player'.Health = player.Health
        /\ player'.MaxHealth = player.MaxHealth
        /\ player'.Defense = player.Defense
        /\ player'.Luck = player.Luck
        /\ player'.Level = player.Level
        /\ player'.Score = player.Score + 20

\* C20: the MoveTo that resolves the Exit cell replaces the grid by a new
\* dungeon of the next level, puts the actor on its Entrance, adds exactly 20
\* to the score and leaves health, maxHealth, defense, luck and the player's
\* level as they were.
C20_ExitTransition == [][C20_ExitStep]_vars

\* the Exit of the first dungeon has just been taken
C20_Witness ==
    /\ Level = 2
    /\ call.op = "MoveTo"
    /\ returned.ScoreChange = 20
    /\ returned.RemoveEntity = FALSE
    /\ <<player.X, player.Y>> = Entrance
    /\ player.Score > 20

\* C21: the actor is never left standing on the Exit cell of the current grid:
\* whenever it comes to occupy that cell, by a click on an adjacent Exit or by
\* following a pending path, Handle(Exit) is called and the grid is replaced by
\* the dungeon of the next level.
C21_NeverLeftOnExit ==
    ~(/\ <<player.X, player.Y>> = Exit
      /\ Cells[Exit[2]][Exit[1]] = ExitT)

\* C26: after any sequence of ticks the actor's position is inside the
\* current grid and on an Empty, Entrance or Exit cell, never on a Wall,
\* Monster or Treasure cell, and Player.Update never indexes a cell outside
\* the current grid.
C26_ActorOnFloor ==
    /\ pc # "panic"
    /\ player.X >= 0 /\ player.X < Width
    /\ player.Y >= 0 /\ player.Y < Height
    /\ Cells[player.Y][player.X] \in {Empty, EntranceT, ExitT}

\* the cell a MoveTo call has resolved
Touched == <<call'.found[2].x, call'.found[2].y>>

C27_TouchStep ==
    /\ MoveToOnto({Monster}) =>
          LET level == Details[Touched].InteractionLevel
          IN  /\ returned'.HealthChange = -(((5 + 2 * level) * (100 - player.Defense)) \div 100)
              /\ returned'.ScoreChange = 10 + 5 * level
    /\ MoveToOnto({Treasure}) =>
          LET value == Details[Touched].InteractionLevel
              kind == Details[Touched].TreasureType
          IN  /\ returned'.ScoreChange = (value * (100 + player.Luck)) \div 100
              /\ returned'.HealthChange = IF kind = "potion" THEN 10 ELSE 0

\* C27: when the actor steps onto a Monster or Treasure cell during play, the
\* outcome is computed from that cell's own parameters: the damage and the
\* score from the Monster cell's interactionLevel, the score and the potion
\* bonus from the Treasure cell's interactionLevel and treasureKind.
C27_OutcomeFromTouchedCell == [][C27_TouchStep]_vars

----------------------------------------------------------------------------
(* Properties of the walk after the last click, under FairWalk. *)

\* the last click has just been made
JustClicked == pc = "playerUpdate" /\ call.op = "MoveTo" /\ Len(path) > 0

\* the last click has resolved the Monster or Treasure cell next to the actor
ResolvedNext == "EntityRemoved" \in DOMAIN returned /\ returned.EntityRemoved \in {Monster, Treasure}

\* the last click has called no handler
ResolvedNothing == "none" \in DOMAIN returned

\* the index in path of the first Monster or Treasure cell that lies on it
\* after the click, or 0
FirstEntity ==
    LET On == {j \in 2..Len(path) :
                  InGrid(path[j]) /\ Cells[path[j].y][path[j].x] \in {Monster, Treasure}}
    IN  IF On = {} THEN 0 ELSE CHOOSE j \in On : \A k \in On : j <= k

ActorOn(p) == player.X = p.x /\ player.Y = p.y

\* the actor stands on the cell of the path before its j-th cell and has no
\* pending path
StoppedBefore(j) ==
    /\ j >= 2 /\ j <= Len(path)
    /\ ActorOn(path[j - 1])
    /\ player.Path = <<>>

\* the actor stands on the second cell of the path, which is Empty, and has
\* no pending path
StoppedOnNext ==
    /\ Len(path) >= 2
    /\ ActorOn(path[2])
    /\ player.Path = <<>>
    /\ InGrid(path[2])
    /\ Cells[path[2].y][path[2].x] = Empty

\* a step of the actor is taken with the cooldown at 0 and sets it to 10, so
\* that a step is taken every eleventh tick
C28_StepTiming ==
    (<<player'.X, player'.Y>> # <<player.X, player.Y>> /\ Level' = Level) =>
        /\ pc = "playerUpdate"
        /\ player.moveCooldown = 0
        /\ player'.moveCooldown = 10
        /\ Len(player.Path) > 0
        /\ player'.X = player.Path[1].x
        /\ player'.Y = player.Path[1].y
        /\ player'.Path = Tail(player.Path)

\* with no Monster or Treasure cell on the computed path the actor reaches the
\* target and the pending path is then empty
C28_ReachesTarget ==
    (JustClicked /\ Len(path) > 1 /\ ResolvedNothing /\ FirstEntity = 0)
        ~> (ActorOn(goal) /\ player.Path = <<>>)

====
